---- MODULE Spec2Model ----
(***************************************************************************)
(* MemoryEditor (src/src/memory_editor.rs): the builder-style adapter      *)
(* around the native memory editor widget.  The state is the adapter's     *)
(* fields, the frame of the draw call in progress and the last trampoline  *)
(* invocation the widget made inside that call.                            *)
(***************************************************************************)
EXTENDS Integers, Sequences, FiniteSets, TLC

\* ------------------------------------------------------------------ bounds
\* Largest byte-size given to the mem_size setter.
MaxMemSize == 6
\* Longest caller buffer handed to draw / draw_vec.
MaxBufLen == 2

\* ------------------------------------------------------------ input values
None == "None"
\* Sample u8 values for buffer contents and written bytes.
ByteVals == {0, 255}
\* The byte sizes the caller configures.
MemSizes == {0, 1, MaxMemSize}
\* The base addresses the caller configures.
BaseAddrs == {0, 1}
\* The caller's byte slices (the referent of T = &[u8] or &mut [u8]).
Buffers == UNION {[1..n -> ByteVals] : n \in 0..MaxBufLen}
\* The two slice instantiations of MemoryEditor<'a, T> that own a draw_vec.
SliceKinds == {"shared", "mut"}

\* Closures the caller may box into the read slot.
ReadHandlers == {"offset_as_byte", "index_or_zero"}
\* Closures the caller may box into the write slot; storing through the
\* slice type-checks only when T = &mut [u8].
WriteHandlers(t) == IF t = "mut" THEN {"store"} ELSE {"discard"}
\* Closures the caller may box into the highlight slot.
HighlightHandlers == {"is_even"}

\* |d, off| off as u8      /     |d, off| d.get(off).copied().unwrap_or(0)
ReadCb(f, d, off) ==
  IF f = "offset_as_byte" THEN off % 256
  ELSE IF off < Len(d) THEN d[off + 1] ELSE 0

\* |d, off, v| if off < d.len() { d[off] = v }      /     |_, _, _| ()
WriteCb(f, d, off, v) ==
  IF f = "store" /\ off < Len(d) THEN [d EXCEPT ![off + 1] = v] ELSE d

\* |d, off| off % 2 == 0
HighlightCb(f, d, off) == off % 2 = 0

\* ------------------------------------------------------------------- state
VARIABLES
  slice_kind,    \* the type parameter T of this adapter
  window_name,   \* Option<&ImStr>
  read_fn,       \* ReadHandler slot
  write_fn,      \* WriteHandler slot
  highlight_fn,  \* HighlightHandler slot
  mem_size,
  base_addr,
  raw,           \* sys::MemoryEditor: ReadOnly and the three trampoline slots
  pc,            \* "idle" | "in_widget" | "panicked"
  call,          \* frame of the draw call in progress
  user_data,     \* the bytes the caller handed to the call in progress
  tramp,         \* the widget's last byte access inside the call in progress
  panic          \* message of the abrupt failure, None while running

vars == <<slice_kind, window_name, read_fn, write_fn, highlight_fn, mem_size,
          base_addr, raw, pc, call, user_data, tramp, panic>>

config == <<slice_kind, window_name, read_fn, write_fn, highlight_fn, mem_size,
            base_addr, raw>>

NoCall == [op |-> None, ext |-> <<>>]
NoTramp == [kind |-> None]

\* MemoryEditor::new(): every slot empty, sizes 0, the widget's defaults in raw.
Init ==
  /\ slice_kind \in SliceKinds
  /\ window_name = None
  /\ read_fn = None
  /\ write_fn = None
  /\ highlight_fn = None
  /\ mem_size = 0
  /\ base_addr = 0
  /\ raw = [ReadOnly |-> FALSE, ReadFn |-> None, WriteFn |-> None,
            HighlightFn |-> None]
  /\ pc = "idle"
  /\ call = NoCall
  /\ user_data = <<>>
  /\ tramp = NoTramp
  /\ panic = None

\* ----------------------------------------------------------------- setters
\* The setters take self by value, so none can run while draw borrows it.
Idle == pc = "idle"
Frame == <<pc, call, user_data, tramp, panic>>

Set_mem_size(n) ==
  /\ Idle
  /\ mem_size' = n
  /\ UNCHANGED <<slice_kind, window_name, read_fn, write_fn, highlight_fn,
                 base_addr, raw, Frame>>

Set_base_addr(a) ==
  /\ Idle
  /\ base_addr' = a
  /\ UNCHANGED <<slice_kind, window_name, read_fn, write_fn, highlight_fn,
                 mem_size, raw, Frame>>

Set_read_only(b) ==
  /\ Idle
  /\ raw' = [raw EXCEPT !.ReadOnly = b]
  /\ UNCHANGED <<slice_kind, window_name, read_fn, write_fn, highlight_fn,
                 mem_size, base_addr, Frame>>

Set_read_fn(f) ==
  /\ Idle
  /\ read_fn' = f
  /\ UNCHANGED <<slice_kind, window_name, write_fn, highlight_fn, mem_size,
                 base_addr, raw, Frame>>

Set_write_fn(f) ==
  /\ Idle
  /\ write_fn' = f
  /\ UNCHANGED <<slice_kind, window_name, read_fn, highlight_fn, mem_size,
                 base_addr, raw, Frame>>

Set_highlight_fn(f) ==
  /\ Idle
  /\ highlight_fn' = f
  /\ UNCHANGED <<slice_kind, window_name, read_fn, write_fn, mem_size,
                 base_addr, raw, Frame>>

draw_window ==
  /\ Idle
  /\ window_name' = "title"
  /\ UNCHANGED <<slice_kind, read_fn, write_fn, highlight_fn, mem_size,
                 base_addr, raw, Frame>>

no_window ==
  /\ Idle
  /\ window_name' = None
  /\ UNCHANGED <<slice_kind, read_fn, write_fn, highlight_fn, mem_size,
                 base_addr, raw, Frame>>

\* -------------------------------------------------------------------- draw
\* An assert! that fails: the call ends abruptly before anything after it.
Panic(op, d, msg) ==
  /\ pc' = "panicked"
  /\ panic' = msg
  /\ call' = [op |-> op, ext |-> <<>>]
  /\ user_data' = d
  /\ tramp' = NoTramp
  /\ UNCHANGED config

\* Faulty variant: the read assertion left out.
DrawAssertRead_Dropped == TRUE

\* assert!(self.read_fn.is_some() || self.mem_size == 0)
DrawAssertRead == read_fn # None \/ mem_size = 0

\* Faulty variant: the write assertion without its read-only escape.
DrawAssertWrite_NoReadOnly == write_fn # None \/ mem_size = 0

\* assert!(self.write_fn.is_some() || self.raw.ReadOnly || self.mem_size == 0)
DrawAssertWrite == write_fn # None \/ raw.ReadOnly \/ mem_size = 0

\* Faulty variant: the highlight trampoline installed unconditionally.
DrawInstall_AlwaysHighlight ==
  [raw EXCEPT !.ReadFn = "read_wrapper",
              !.WriteFn = "write_wrapper",
              !.HighlightFn = "highlight_wrapper"]

\* Faulty variant: the write trampoline installed only when not read-only.
DrawInstall_SkipWriteWhenReadOnly ==
  [raw EXCEPT !.ReadFn = "read_wrapper",
              !.WriteFn = IF raw.ReadOnly THEN None ELSE "write_wrapper",
              !.HighlightFn = IF highlight_fn # None THEN "highlight_wrapper"
                              ELSE None]

\* self.raw.ReadFn = ..; self.raw.WriteFn = ..; self.raw.HighlightFn = ..
DrawInstall ==
  [raw EXCEPT !.ReadFn = "read_wrapper",
              !.WriteFn = "write_wrapper",
              !.HighlightFn = IF highlight_fn # None THEN "highlight_wrapper"
                              ELSE None]

\* Faulty variant: the window title ignored.
draw_raw_AlwaysContents(mem_data, size) ==
  <<[entry |-> "Editor_DrawContents", title |-> None,
     mem_data |-> mem_data, mem_size |-> size, base_addr |-> base_addr]>>

\* The external entry points draw_raw invokes, in order, with their arguments
\* (size is self.mem_size as draw_raw reads it).
draw_raw(mem_data, size) ==
  IF window_name # None
  THEN <<[entry |-> "Editor_DrawWindow", title |-> window_name,
          mem_data |-> mem_data, mem_size |-> size, base_addr |-> base_addr]>>
  ELSE <<[entry |-> "Editor_DrawContents", title |-> None,
          mem_data |-> mem_data, mem_size |-> size, base_addr |-> base_addr]>>

\* draw(&mut self, ui, user_data): up to the entry into the external widget.
draw(d) ==
  /\ Idle
  /\ IF ~DrawAssertRead
     THEN Panic("draw", d, "Read Fn must be set if mem size > 0")
     ELSE IF ~DrawAssertWrite
     THEN Panic("draw", d, "Write Fn must be set if not read only and mem size > 0")
     ELSE /\ raw' = DrawInstall
          /\ call' = [op |-> "draw", ext |-> draw_raw("bundle", mem_size)]
          /\ user_data' = d
          /\ pc' = "in_widget"
          /\ tramp' = NoTramp
          /\ UNCHANGED <<slice_kind, window_name, read_fn, write_fn,
                         highlight_fn, mem_size, base_addr, panic>>

\* ---------------------------------------------------------------- draw_vec
\* Faulty variant: the highlight slot not looked at.
DrawVecAssertHandlers_NoHighlight == read_fn = None /\ write_fn = None

\* assert!(read_fn.is_none() && write_fn.is_none() && highlight_fn.is_none())
DrawVecAssertHandlers ==
  read_fn = None /\ write_fn = None /\ highlight_fn = None

\* assert!(!self.raw.ReadOnly, ..) of the &[u8] variant
DrawVecAssertReadOnly == ~raw.ReadOnly

\* Faulty variant: mem_size left as configured.
DrawVecBody_KeepsMemSize(d) ==
  /\ call' = [op |-> "draw_vec", ext |-> draw_raw("buffer", mem_size)]
  /\ user_data' = d
  /\ pc' = "in_widget"
  /\ tramp' = NoTramp
  /\ UNCHANGED <<slice_kind, window_name, read_fn, write_fn, highlight_fn,
                 mem_size, base_addr, raw, panic>>

\* self.mem_size = data.len(); self.draw_raw(data.as_ptr())
DrawVecBody(d) ==
  /\ mem_size' = Len(d)
  /\ call' = [op |-> "draw_vec", ext |-> draw_raw("buffer", Len(d))]
  /\ user_data' = d
  /\ pc' = "in_widget"
  /\ tramp' = NoTramp
  /\ UNCHANGED <<slice_kind, window_name, read_fn, write_fn, highlight_fn,
                 base_addr, raw, panic>>

\* impl MemoryEditor<&[u8]>: draw_vec(&mut self, ui, data: &[u8])
draw_vec_shared(d) ==
  /\ Idle
  /\ slice_kind = "shared"
  /\ IF ~DrawVecAssertReadOnly
     THEN Panic("draw_vec", d,
                "Data muse be a mutable slice if editor is not read only")
     ELSE IF ~DrawVecAssertHandlers
     THEN Panic("draw_vec", d,
                "Handler functions not supported when using draw_vec. Use draw instead")
     ELSE DrawVecBody(d)

\* impl MemoryEditor<&mut [u8]>: draw_vec(&mut self, ui, data: &mut [u8])
draw_vec_mut(d) ==
  /\ Idle
  /\ slice_kind = "mut"
  /\ IF ~DrawVecAssertHandlers
     THEN Panic("draw_vec", d,
                "Handler functions not supported when using draw_vec. Use draw instead")
     ELSE DrawVecBody(d)

\* ------------------------------------------------------------- trampolines
\* The MemData tuple draw builds on its stack and passes as the opaque handle.
MemData ==
  [read_fn |-> read_fn, write_fn |-> write_fn, highlight_fn |-> highlight_fn,
   user_data |-> user_data]

\* What one trampoline invocation did: ok = FALSE is unwrap() on an empty slot,
\* calls the callback invocations it made, user_data the bytes afterwards.
Unwrapped(data) ==
  [ok |-> FALSE, ret |-> 0, hl |-> FALSE, user_data |-> data.user_data,
   calls |-> <<>>]

\* Faulty variant: the offset forwarded one too high.
read_wrapper_OffByOne(data, off) ==
  IF data.read_fn = None THEN Unwrapped(data)
  ELSE [ok |-> TRUE,
        ret |-> ReadCb(data.read_fn, data.user_data, off + 1),
        hl |-> FALSE,
        user_data |-> data.user_data,
        calls |-> <<[slot |-> "read_fn", fn |-> data.read_fn,
                     user_data |-> data.user_data, off |-> off + 1, val |-> 0]>>]

\* read_fn.as_mut().unwrap()(user_data, off)
read_wrapper(data, off) ==
  IF data.read_fn = None THEN Unwrapped(data)
  ELSE [ok |-> TRUE,
        ret |-> ReadCb(data.read_fn, data.user_data, off),
        hl |-> FALSE,
        user_data |-> data.user_data,
        calls |-> <<[slot |-> "read_fn", fn |-> data.read_fn,
                     user_data |-> data.user_data, off |-> off, val |-> 0]>>]

\* write_fn.as_mut().unwrap()(user_data, off, d)
write_wrapper(data, off, d) ==
  IF data.write_fn = None THEN Unwrapped(data)
  ELSE [ok |-> TRUE,
        ret |-> 0,
        hl |-> FALSE,
        user_data |-> WriteCb(data.write_fn, data.user_data, off, d),
        calls |-> <<[slot |-> "write_fn", fn |-> data.write_fn,
                     user_data |-> data.user_data, off |-> off, val |-> d]>>]

\* highlight_fn.as_mut().unwrap()(user_data, off)
highlight_wrapper(data, off) ==
  IF data.highlight_fn = None THEN Unwrapped(data)
  ELSE [ok |-> TRUE,
        ret |-> 0,
        hl |-> HighlightCb(data.highlight_fn, data.user_data, off),
        user_data |-> data.user_data,
        calls |-> <<[slot |-> "highlight_fn", fn |-> data.highlight_fn,
                     user_data |-> data.user_data, off |-> off, val |-> 0]>>]

\* ------------------------------------------------------ the external widget
\* The arguments of the external draw invocation in progress.
Ext == call.ext[1]

InWidget == pc = "in_widget"

Access(kind, via, off, val, ret, hl, calls) ==
  [kind |-> kind, via |-> via, off |-> off, val |-> val, ret |-> ret,
   hl |-> hl, before |-> user_data, calls |-> calls]

\* The process ends abruptly inside the external call.
Abort(msg) ==
  /\ pc' = "panicked"
  /\ panic' = msg
  /\ UNCHANGED <<config, call, user_data, tramp>>

\* A trampoline ran on the bundle: its result goes back to the widget.
Deliver(kind, off, val, r) ==
  IF r.ok
  THEN /\ tramp' = Access(kind, "trampoline", off, val, r.ret, r.hl, r.calls)
       /\ user_data' = r.user_data
       /\ UNCHANGED <<config, pc, call, panic>>
  ELSE Abort("called Option::unwrap() on a None value")

\* A trampoline ran on a handle that is no MemData tuple (the raw buffer):
\* undefined behaviour, any result or memory effect the build produces.
Undefined(kind, off, val) ==
  \/ Abort("undefined behaviour")
  \/ \E ret \in ByteVals, hl \in BOOLEAN,
        after \in {b \in Buffers : Len(b) = Len(user_data)} :
       /\ kind = "read" => hl = FALSE /\ after = user_data
       /\ kind = "highlight" => ret = 0 /\ after = user_data
       /\ kind = "write" => ret = 0 /\ hl = FALSE
       /\ tramp' = Access(kind, "undefined", off, val, ret, hl, <<>>)
       /\ user_data' = after
       /\ UNCHANGED <<config, pc, call, panic>>

\* The widget needs the byte at off: ReadFn ? ReadFn(mem_data, off) : mem_data[off]
Widget_ReadByte(off) ==
  /\ InWidget
  /\ off \in 0..(Ext.mem_size - 1)
  /\ IF raw.ReadFn = None
     THEN /\ tramp' = Access("read", "direct", off, 0, user_data[off + 1],
                             FALSE, <<>>)
          /\ UNCHANGED <<config, pc, call, user_data, panic>>
     ELSE IF Ext.mem_data = "bundle"
     THEN Deliver("read", off, 0, read_wrapper(MemData, off))
     ELSE Undefined("read", off, 0)

\* The user edits the byte at off (never in read-only mode):
\* WriteFn ? WriteFn(mem_data, off, v) : mem_data[off] = v
Widget_WriteByte(off, v) ==
  /\ InWidget
  /\ ~raw.ReadOnly
  /\ off \in 0..(Ext.mem_size - 1)
  /\ IF raw.WriteFn = None
     THEN \/ /\ tramp' = Access("write", "direct", off, v, 0, FALSE, <<>>)
             /\ user_data' = [user_data EXCEPT ![off + 1] = v]
             /\ UNCHANGED <<config, pc, call, panic>>
          \/ /\ slice_kind = "shared"
             /\ Abort("undefined behaviour")
     ELSE IF Ext.mem_data = "bundle"
     THEN Deliver("write", off, v, write_wrapper(MemData, off, v))
     ELSE Undefined("write", off, v)

\* The widget asks whether the byte at off is highlighted, only with a
\* HighlightFn installed.
Widget_Highlight(off) ==
  /\ InWidget
  /\ raw.HighlightFn # None
  /\ off \in 0..(Ext.mem_size - 1)
  /\ IF Ext.mem_data = "bundle"
     THEN Deliver("highlight", off, 0, highlight_wrapper(MemData, off))
     ELSE Undefined("highlight", off, 0)

\* The external draw call returns; the frame of draw / draw_vec is popped.
Widget_Return ==
  /\ InWidget
  /\ pc' = "idle"
  /\ call' = NoCall
  /\ user_data' = <<>>
  /\ tramp' = NoTramp
  /\ UNCHANGED <<config, panic>>

\* ------------------------------------------------------------ specification
Offsets == 0..(MaxMemSize - 1)

Next ==
  \/ \E n \in MemSizes : Set_mem_size(n)
  \/ \E a \in BaseAddrs : Set_base_addr(a)
  \/ \E b \in BOOLEAN : Set_read_only(b)
  \/ \E f \in ReadHandlers : Set_read_fn(f)
  \/ \E f \in WriteHandlers(slice_kind) : Set_write_fn(f)
  \/ \E f \in HighlightHandlers : Set_highlight_fn(f)
  \/ draw_window
  \/ no_window
  \/ \E d \in Buffers : draw(d)
  \/ \E d \in Buffers : draw_vec_shared(d)
  \/ \E d \in Buffers : draw_vec_mut(d)
  \/ \E off \in Offsets : Widget_ReadByte(off)
  \/ \E off \in Offsets, v \in ByteVals : Widget_WriteByte(off, v)
  \/ \E off \in Offsets : Widget_Highlight(off)
  \/ Widget_Return

Spec == Init /\ [][Next]_vars

\* ------------------------------------------------------------------ claims
\* A step that is a call of generic draw / of draw_vec: only those leave idle
\* with a frame of that name.
DrawStep == pc = "idle" /\ call'.op = "draw"
DrawVecStep == pc = "idle" /\ call'.op = "draw_vec"
Passed == pc' = "in_widget"
FailedFast == pc' = "panicked" /\ call'.ext = <<>>
InDraw == pc = "in_widget" /\ call.op = "draw"
InDrawVec == pc = "in_widget" /\ call.op = "draw_vec"
AnyHandler == read_fn # None \/ write_fn # None \/ highlight_fn # None
UnwrapNone == "called Option::unwrap() on a None value"

\* C1: generic draw fails fast exactly when byte-size > 0 and either no read
\* callback is attached or (read-only is false and no write callback is
\* attached); in every other configuration it succeeds.
C1_DrawFailsFastExactly ==
  [][DrawStep =>
       LET mustFail == mem_size > 0 /\ (read_fn = None \/
                                        (~raw.ReadOnly /\ write_fn = None))
       IN /\ FailedFast <=> mustFail
          /\ Passed <=> ~mustFail
          /\ mem_size = 0 => Passed
          /\ (raw.ReadOnly /\ read_fn # None) => Passed]_vars

C1_Witness ==
  /\ pc = "panicked" /\ call.op = "draw"
  /\ mem_size > 0 /\ read_fn # None /\ write_fn = None /\ ~raw.ReadOnly

\* C2 (as claimed): the &[u8] draw_vec fails fast unless the read-only flag is
\* set; with the flag set and no callbacks attached it proceeds to the
\* external draw call.
C2_SharedDrawVecNeedsReadOnly ==
  [][(DrawVecStep /\ slice_kind = "shared") =>
       /\ ~raw.ReadOnly => FailedFast
       /\ (raw.ReadOnly /\ ~AnyHandler) => Passed]_vars

\* C3: draw_vec (both variants) fails fast whenever any of the read, write or
\* highlight callbacks is attached, whatever the buffer, and before any
\* external entry point is invoked.
C3_DrawVecRejectsHandlers ==
  [][(DrawVecStep /\ AnyHandler) => FailedFast]_vars

C3_Witness ==
  /\ pc = "panicked" /\ call.op = "draw_vec" /\ call.ext = <<>>
  /\ slice_kind = "mut" /\ write_fn # None /\ read_fn = None
  /\ highlight_fn = None /\ Len(user_data) = MaxBufLen

\* C4 (as claimed): during every draw_vec external draw invocation no
\* trampoline is installed in the configuration record, so the widget never
\* invokes a trampoline with the raw buffer pointer as its handle.
C4_DrawVecBypassesTrampolines ==
  InDrawVec =>
    /\ raw.ReadFn = None /\ raw.WriteFn = None /\ raw.HighlightFn = None
    /\ tramp.kind # None => tramp.via = "direct"

\* C5: after a generic draw that passes its preconditions the highlight
\* trampoline slot is installed iff a highlight callback was attached before
\* the draw, and is cleared otherwise.
C5_HighlightInstalledIffAttached ==
  [][(DrawStep /\ Passed) =>
       /\ raw'.HighlightFn = "highlight_wrapper" <=> highlight_fn # None
       /\ highlight_fn = None => raw'.HighlightFn = None]_vars

C5_Witness ==
  InDraw /\ highlight_fn # None /\ raw.HighlightFn = "highlight_wrapper"

\* C6: a draw or draw_vec call that passes its preconditions makes exactly one
\* external draw invocation: the window entry point if a window title is
\* configured at that moment, otherwise the inline entry point.
C6_ExactlyOneExternalDraw ==
  [][((DrawStep \/ DrawVecStep) /\ ~FailedFast) =>
       /\ Passed
       /\ Len(call'.ext) = 1
       /\ window_name # None =>
            /\ call'.ext[1].entry = "Editor_DrawWindow"
            /\ call'.ext[1].title = window_name
       /\ window_name = None => call'.ext[1].entry = "Editor_DrawContents"]_vars

C6_Witness ==
  /\ pc = "in_widget" /\ window_name # None
  /\ call.ext = <<[entry |-> "Editor_DrawWindow", title |-> window_name,
                   mem_data |-> "buffer", mem_size |-> mem_size,
                   base_addr |-> base_addr]>>

\* C7 (as claimed): after a generic draw with read-only = true the write
\* trampoline slot is empty.
C7_ReadOnlySkipsWriteTrampoline ==
  [][(DrawStep /\ Passed /\ raw.ReadOnly) => raw'.WriteFn = None]_vars

\* C7 (amended): generic draw installs the write trampoline whether or not the
\* read-only flag is set, and leaves the flag as configured.
C7_WriteTrampolineAlwaysInstalled ==
  [][(DrawStep /\ Passed) =>
       /\ raw'.WriteFn = "write_wrapper"
       /\ raw'.ReadOnly = raw.ReadOnly]_vars

C7_Witness ==
  InDraw /\ raw.ReadOnly /\ raw.WriteFn = "write_wrapper" /\ write_fn = None
         /\ mem_size > 0

\* C8: a draw_vec call that passes its preconditions sets byte-size to the
\* buffer's length and hands that value to the widget, whatever byte-size was
\* before, and byte-size changes only by the setter or another draw_vec.
C8_DrawVecSetsMemSize ==
  [][/\ (DrawVecStep /\ Passed) =>
          /\ mem_size' = Len(user_data')
          /\ call'.ext[1].mem_size = Len(user_data')
     /\ mem_size' # mem_size =>
          \/ DrawVecStep /\ Passed
          \/ pc = "idle" /\ pc' = "idle"]_vars

C8_Witness ==
  /\ InDrawVec /\ Len(user_data) = MaxBufLen /\ mem_size = MaxBufLen
  /\ call.ext[1].mem_size = MaxBufLen

\* C9: in a generic draw that passed its preconditions no trampoline is
\* invoked with its callback slot empty (the widget invoking only installed
\* trampolines, read and highlight at offsets below byte-size, write only
\* when not read-only and byte-size > 0).
C9_NoUnwrapOfEmptySlot ==
  ~(pc = "panicked" /\ call.op = "draw" /\ panic = UnwrapNone)

C9_Witness ==
  /\ InDraw /\ raw.ReadOnly /\ write_fn = None /\ highlight_fn = None
  /\ tramp.kind = "read" /\ tramp.via = "trampoline"

\* C10: during a generic draw each trampoline forwards to the callback in its
\* slot with the same user data and offset: read and highlight return the
\* callback's result, write invokes the write callback once with
\* (user data, offset, value) and user data changes only through it.
C10_TrampolinesForward ==
  (call.op = "draw" /\ tramp.kind # None) =>
    LET inv(slot, fn, val) ==
          <<[slot |-> slot, fn |-> fn, user_data |-> tramp.before,
             off |-> tramp.off, val |-> val]>>
    IN /\ tramp.via = "trampoline"
       /\ tramp.kind = "read" =>
            /\ tramp.calls = inv("read_fn", read_fn, 0)
            /\ tramp.ret = ReadCb(read_fn, tramp.before, tramp.off)
            /\ (read_fn = "offset_as_byte" /\ tramp.off = 5) => tramp.ret = 5
            /\ user_data = tramp.before
       /\ tramp.kind = "highlight" =>
            /\ tramp.calls = inv("highlight_fn", highlight_fn, 0)
            /\ tramp.hl = HighlightCb(highlight_fn, tramp.before, tramp.off)
            /\ user_data = tramp.before
       /\ tramp.kind = "write" =>
            /\ tramp.calls = inv("write_fn", write_fn, tramp.val)
            /\ user_data = WriteCb(write_fn, tramp.before, tramp.off, tramp.val)

C10_Witness ==
  /\ InDraw /\ read_fn = "offset_as_byte" /\ write_fn = None /\ raw.ReadOnly
  /\ base_addr = 0 /\ mem_size = MaxMemSize
  /\ tramp.kind = "read" /\ tramp.off = 5 /\ tramp.ret = 5

====
